---- MODULE Spec2Model ----
(***************************************************************************)
(* MemForge allocator: lifecycle of the global allocator state.            *)
(*                                                                         *)
(* Models src/src/core/init.c (memforge_init, memforge_init_default_config,*)
(* memforge_init_arenas, memforge_cleanup, memforge_reset) and the public  *)
(* entry points memforge_malloc / memforge_free of core/allocator.c.       *)
(* The OS layer (system_alloc_mmap, system_free_mmap) and the arena layer  *)
(* (arena_create, arena_destroy) are only declared in the repository; they *)
(* are modelled from their documented contracts.                           *)
(*                                                                         *)
(* Every C function is a pure operator from a state record to a state      *)
(* record.  Spec runs the public entry points as whole calls of one        *)
(* thread; SpecConc runs memforge_init / memforge_malloc on several        *)
(* threads, one code block of init.c per step.                             *)
(***************************************************************************)
EXTENDS Integers, Sequences, FiniteSets, TLC

(***************************************************************************)
(* Program constants                                                       *)
(***************************************************************************)
NULL == 0

MEMFORGE_ALIGNMENT == 8

MEMFORGE_SIZE_CLASS_COUNT == 16

MEMFORGE_DEFAULT_MMAP_THRESHOLD == 131072

MEMFORGE_DEFAULT_ARENA_COUNT == 4

MEMFORGE_THREAD_SAFE == TRUE

DEBUG_LOGGING == FALSE

FALLBACK_PAGE_SIZE == 4096

\* sizeof(memforge_arena_t *) on an LP64 build
PTR_SIZE == 8

ENOMEM == 12

Strategies == {"FIRST_FIT", "BEST_FIT", "HYBRID"}

(***************************************************************************)
(* Bounds of the model                                                     *)
(***************************************************************************)
\* width of size_t in the model: sizes are taken modulo 2^SizeBits
SizeBits == 20

\* number of distinct arena objects the arena layer can hand out
NumArenaIds == 5

\* number of distinct OS mappings that can be live at once
NumMapIds == 2

\* largest arena_count a caller passes in a configuration
MaxArenaCount == 3

\* number of threads of the concurrent specification
NumThreads == 2

WORD == 2 ^ SizeBits

ArenaIds == 1 .. NumArenaIds

MapIds == 1 .. NumMapIds

Threads == 1 .. NumThreads

\* page sizes sysconf(_SC_PAGESIZE) may report; 0 exercises the fallback
PageSizes == {0, 16384}

(***************************************************************************)
(* Pure helpers                                                            *)
(***************************************************************************)
Min(S) == CHOOSE x \in S : \A y \in S : x <= y

\* MEMFORGE_ALIGN moving an already aligned size to the next multiple
MEMFORGE_ALIGN_next_multiple(size) ==
    LET t == (size + MEMFORGE_ALIGNMENT) % WORD
    IN  t - (t % MEMFORGE_ALIGNMENT)

\* MEMFORGE_ALIGN adding the alignment minus one without reducing modulo 2^w
MEMFORGE_ALIGN_no_wrap(size) ==
    LET t == size + (MEMFORGE_ALIGNMENT - 1)
    IN  t - (t % MEMFORGE_ALIGNMENT)

\* (((size) + (MEMFORGE_ALIGNMENT - 1)) & ~(MEMFORGE_ALIGNMENT - 1)) on size_t
MEMFORGE_ALIGN(size) ==
    LET t == (size + (MEMFORGE_ALIGNMENT - 1)) % WORD
    IN  t - (t % MEMFORGE_ALIGNMENT)

\* initializer of memforge_size_classes with two boundaries exchanged
InitialSizeClasses_unsorted ==
    << 16, 64, 32, 128, 256, 512, 1024, 2048,
       4096, 8192, 16384, 32768, 65536, 131072, 262144, 524288 >>

\* initializer of memforge_size_classes
InitialSizeClasses ==
    << 16, 32, 64, 128, 256, 512, 1024, 2048,
       4096, 8192, 16384, 32768, 65536, 131072, 262144, 524288 >>

\* memforge_stats_t = {0}
ZeroStats ==
    [ total_allocated |-> 0, total_freed |-> 0, current_usage |-> 0,
      peak_usage |-> 0, allocation_count |-> 0, free_count |-> 0,
      mmap_count |-> 0, heap_expansions |-> 0 ]

\* memforge_config_t = {0}
ZeroConfig ==
    [ page_size |-> 0, mmap_threshold |-> 0, strategy |-> "FIRST_FIT",
      thread_safe |-> FALSE, debug_enabled |-> FALSE, arena_count |-> 0 ]

\* an unmapped mapping slot of the OS
NoMapping == [ live |-> FALSE, size |-> 0, slots |-> << >> ]

\* configurations a caller passes to memforge_init (NULL or a struct)
UserConfigs ==
    [ page_size : {4096}, mmap_threshold : {65536},
      strategy : {"BEST_FIT"}, thread_safe : BOOLEAN,
      debug_enabled : {FALSE}, arena_count : 0 .. MaxArenaCount ]
    \cup
    [ page_size : {0}, mmap_threshold : {65536},
      strategy : {"FIRST_FIT"}, thread_safe : {TRUE},
      debug_enabled : {TRUE}, arena_count : {MaxArenaCount} ]

\* the argument of memforge_init: a NULL pointer or a pointer to a struct
NullConfig == [ null |-> TRUE, val |-> ZeroConfig ]

ConfigArgs == {NullConfig} \cup { [ null |-> FALSE, val |-> c ] : c \in UserConfigs }

\* outcome of the environment during one call: whether the OS grants the
\* mapping and how many arena_create calls succeed before the first failure
MaxCreates ==
    IF MaxArenaCount > MEMFORGE_DEFAULT_ARENA_COUNT
    THEN MaxArenaCount ELSE MEMFORGE_DEFAULT_ARENA_COUNT

Envs ==
    { [ mmap_ok |-> FALSE, creates |-> 0 ] }
    \cup [ mmap_ok : {TRUE}, creates : 0 .. MaxCreates ]

(***************************************************************************)
(* State record threaded through the C functions.                          *)
(*   initialized .. size_classes : the globals of init.c                   *)
(*   maps, live                  : OS mappings and live arena objects      *)
(*   log                         : calls into the OS / arena layer and     *)
(*                                 writes of memforge_initialized, in order*)
(*   rv, errno                   : value returned by the last function     *)
(*   ub                          : an invalid memory access took place     *)
(***************************************************************************)
Emit(s, ev) == [s EXCEPT !.log = Append(@, ev)]

Events(s, name) == { k \in 1 .. Len(s.log) : s.log[k][1] = name }

(***************************************************************************)
(* OS layer                                                                *)
(***************************************************************************)
\* void *system_alloc_mmap(size_t size): a fresh zero-filled mapping, or
\* NULL on failure (no memory, or a zero length)
system_alloc_mmap(s, size, ok) ==
    LET free == { m \in MapIds : ~s.maps[m].live }
    IN  IF ok /\ size > 0 /\ free # {}
        THEN LET m == Min(free)
             IN  Emit([s EXCEPT !.maps[m] =
                                   [ live |-> TRUE, size |-> size,
                                     slots |-> [k \in 1 .. (size \div PTR_SIZE) |-> NULL] ],
                                !.rv = m],
                      << "mmap", m, size >>)
        ELSE Emit([s EXCEPT !.rv = NULL], << "mmap", NULL, size >>)

\* void system_free_mmap(void *ptr, size_t size)
system_free_mmap(s, ptr, size) ==
    LET s1 == Emit(s, << "munmap", ptr, size >>)
    IN  IF ptr \in MapIds /\ s.maps[ptr].live
        THEN [s1 EXCEPT !.maps[ptr] = NoMapping]
        ELSE [s1 EXCEPT !.ub = TRUE]

(***************************************************************************)
(* Arena layer                                                             *)
(***************************************************************************)
\* memforge_arena_t *arena_create(void): a new arena, or NULL on failure
arena_create(s, ok) ==
    LET free == ArenaIds \ s.live
    IN  IF ok /\ free # {}
        THEN LET a == Min(free)
             IN  Emit([s EXCEPT !.live = @ \cup {a}, !.rv = a],
                      << "arena_create", a, 0 >>)
        ELSE Emit([s EXCEPT !.rv = NULL], << "arena_create", NULL, 0 >>)

\* void arena_destroy(memforge_arena_t *arena)
arena_destroy(s, a) ==
    LET s1 == Emit(s, << "arena_destroy", a, 0 >>)
    IN  IF a \in s.live
        THEN [s1 EXCEPT !.live = @ \ {a}]
        ELSE [s1 EXCEPT !.ub = TRUE]

(***************************************************************************)
(* Accesses to the array memforge_arenas points to                         *)
(***************************************************************************)
InBounds(s, i) ==
    /\ s.arenas \in MapIds
    /\ s.maps[s.arenas].live
    /\ i + 1 \in DOMAIN s.maps[s.arenas].slots

\* memforge_arenas[i]
Load(s, i) == IF InBounds(s, i) THEN s.maps[s.arenas].slots[i + 1] ELSE NULL

\* memforge_arenas[i] = a
Store(s, i, a) ==
    IF InBounds(s, i)
    THEN [s EXCEPT !.maps[s.arenas].slots[i + 1] = a]
    ELSE [s EXCEPT !.ub = TRUE]

(***************************************************************************)
(* init.c                                                                  *)
(***************************************************************************)
\* int memforge_init_default_config(void)
memforge_init_default_config(s) ==
    LET detected == s.sys
        page     == IF detected = 0 THEN FALLBACK_PAGE_SIZE ELSE detected
    IN  [s EXCEPT !.config = [ page_size      |-> page,
                               mmap_threshold |-> MEMFORGE_DEFAULT_MMAP_THRESHOLD,
                               strategy       |-> "HYBRID",
                               thread_safe    |-> MEMFORGE_THREAD_SAFE,
                               debug_enabled  |-> DEBUG_LOGGING,
                               arena_count    |-> MEMFORGE_DEFAULT_ARENA_COUNT ],
                  !.rv = 0]

\* if (config != NULL) memforge_config = *config;
ConfigOverride(s, config) ==
    IF ~config.null THEN [s EXCEPT !.config = config.val] ELSE s

\* sizeof(memforge_arena_t *) * memforge_config.arena_count
ArenaArraySize(s) == (PTR_SIZE * s.config.arena_count) % WORD

\* memforge_init_arenas, "Allocate arena array": rv = -1 when it returns early
ArenasAlloc(s, ok) ==
    LET s1 == system_alloc_mmap(s, ArenaArraySize(s), ok)
        s2 == [s1 EXCEPT !.arenas = s1.rv]
    IN  IF s2.arenas = NULL THEN [s2 EXCEPT !.rv = -1] ELSE [s2 EXCEPT !.rv = 0]

\* ArenasMain without "memforge_arenas[0] = memforge_main_arena"
ArenasMain_no_store(s, ok) ==
    LET s1 == arena_create(s, ok)
        s2 == [s1 EXCEPT !.main_arena = s1.rv]
    IN  IF s2.main_arena = NULL
        THEN [system_free_mmap(s2, s2.arenas, ArenaArraySize(s2)) EXCEPT !.rv = -1]
        ELSE [s2 EXCEPT !.rv = 0]

\* memforge_init_arenas, "Create main arena": rv = -1 when it returns early
ArenasMain(s, ok) ==
    LET s1 == arena_create(s, ok)
        s2 == [s1 EXCEPT !.main_arena = s1.rv]
    IN  IF s2.main_arena = NULL
        THEN [system_free_mmap(s2, s2.arenas, ArenaArraySize(s2)) EXCEPT !.rv = -1]
        ELSE [Store(s2, 0, s2.main_arena) EXCEPT !.rv = 0]

\* ArenasLoopBody recording one arena too many when arena_create fails
ArenasLoopBody_off_by_one(s, i, ok) ==
    LET s1 == arena_create(s, ok)
        a  == s1.rv
        s2 == Store(s1, i, a)
    IN  IF a = NULL
        THEN [s2 EXCEPT !.config.arena_count = i + 1, !.rv = NULL]
        ELSE [s2 EXCEPT !.rv = a]

\* ArenasLoopBody leaving arena_count as requested when arena_create fails
ArenasLoopBody_keeps_count(s, i, ok) ==
    LET s1 == arena_create(s, ok)
        a  == s1.rv
        s2 == Store(s1, i, a)
    IN  IF a = NULL
        THEN [s2 EXCEPT !.rv = NULL]
        ELSE [s2 EXCEPT !.rv = a]

\* memforge_init_arenas, one iteration of the worker-arena loop; rv = NULL
\* when the loop breaks
ArenasLoopBody(s, i, ok) ==
    LET s1 == arena_create(s, ok)
        a  == s1.rv
        s2 == Store(s1, i, a)
    IN  IF a = NULL
        THEN [s2 EXCEPT !.config.arena_count = i, !.rv = NULL]
        ELSE [s2 EXCEPT !.rv = a]

RECURSIVE ArenasLoop(_, _, _)
\* for (size_t i = 1; i < memforge_config.arena_count; i++) { ... }
ArenasLoop(s, i, creates) ==
    IF i < s.config.arena_count
    THEN LET s1 == ArenasLoopBody(s, i, creates > 0)
         IN  IF s1.rv = NULL THEN s1 ELSE ArenasLoop(s1, i + 1, creates - 1)
    ELSE s

\* memforge_init_arenas running the worker-arena loop whatever thread_safe is
memforge_init_arenas_always_workers(s, env) ==
    LET s1 == ArenasAlloc(s, env.mmap_ok)
        s2 == ArenasMain(s1, env.creates > 0)
        s3 == ArenasLoop(s2, 1, env.creates - 1)
    IN  IF s1.rv # 0 THEN s1
        ELSE IF s2.rv # 0 THEN s2
        ELSE [s3 EXCEPT !.rv = 0]

\* int memforge_init_arenas(void)
memforge_init_arenas(s, env) ==
    LET s1 == ArenasAlloc(s, env.mmap_ok)
        s2 == ArenasMain(s1, env.creates > 0)
        s3 == IF s2.config.thread_safe
              THEN ArenasLoop(s2, 1, env.creates - 1)
              ELSE s2
    IN  IF s1.rv # 0 THEN s1
        ELSE IF s2.rv # 0 THEN s2
        ELSE [s3 EXCEPT !.rv = 0]

\* memforge_size_classes[i] = MEMFORGE_ALIGN(memforge_size_classes[i]) for all i
AlignSizeClasses(s) ==
    [s EXCEPT !.size_classes =
        [i \in 1 .. MEMFORGE_SIZE_CLASS_COUNT |-> MEMFORGE_ALIGN(s.size_classes[i])]]

\* memforge_initialized = true; return 0;
InitFinish(s) ==
    Emit([s EXCEPT !.initialized = TRUE, !.rv = 0], << "initialized", 1, 0 >>)

\* memforge_init raising the flag before the arenas are built
memforge_init_flag_first(s, config, env) ==
    IF s.initialized
    THEN [s EXCEPT !.rv = 0]
    ELSE LET s0 == InitFinish(s)
             s1 == ConfigOverride(memforge_init_default_config(s0), config)
             s2 == memforge_init_arenas(s1, env)
         IN  IF s2.rv # 0
             THEN [s2 EXCEPT !.rv = -1]
             ELSE [AlignSizeClasses(s2) EXCEPT !.rv = 0]

\* memforge_init taking the configuration before it tests the flag
memforge_init_no_check(s, config, env) ==
    LET s1 == ConfigOverride(memforge_init_default_config(s), config)
    IN  IF s.initialized
        THEN [s1 EXCEPT !.rv = 0]
        ELSE LET s2 == memforge_init_arenas(s1, env)
             IN  IF s2.rv # 0
                 THEN [s2 EXCEPT !.rv = -1]
                 ELSE InitFinish(AlignSizeClasses(s2))

\* memforge_init ignoring the result of memforge_init_arenas
memforge_init_ignore_arenas_failure(s, config, env) ==
    IF s.initialized
    THEN [s EXCEPT !.rv = 0]
    ELSE LET s1 == ConfigOverride(memforge_init_default_config(s), config)
             s2 == memforge_init_arenas(s1, env)
         IN  InitFinish(AlignSizeClasses(s2))

\* int memforge_init(const memforge_config_t *config)
memforge_init(s, config, env) ==
    IF s.initialized
    THEN [s EXCEPT !.rv = 0]
    ELSE LET s1 == ConfigOverride(memforge_init_default_config(s), config)
             s2 == memforge_init_arenas(s1, env)
         IN  IF s2.rv # 0
             THEN [s2 EXCEPT !.rv = -1]
             ELSE InitFinish(AlignSizeClasses(s2))

RECURSIVE CleanupLoop(_, _)
\* for (size_t i = 0; i < memforge_config.arena_count; i++)
\*     if (memforge_arenas[i] != NULL) arena_destroy(memforge_arenas[i]);
CleanupLoop(s, i) ==
    IF i < s.config.arena_count
    THEN LET a  == Load(s, i)
             s0 == IF InBounds(s, i) THEN s ELSE [s EXCEPT !.ub = TRUE]
             s1 == IF a # NULL THEN arena_destroy(s0, a) ELSE s0
         IN  CleanupLoop(s1, i + 1)
    ELSE s

\* memforge_cleanup without the test of memforge_initialized
memforge_cleanup_no_guard(s) ==
    LET s1 == CleanupLoop(s, 0)
        s2 == IF s1.arenas # NULL
              THEN [system_free_mmap(s1, s1.arenas, ArenaArraySize(s1))
                       EXCEPT !.arenas = NULL]
              ELSE s1
    IN  Emit([s2 EXCEPT !.main_arena = NULL, !.initialized = FALSE],
             << "initialized", 0, 0 >>)

\* memforge_cleanup whose loop starts at the first worker arena
memforge_cleanup_skip_main(s) ==
    IF ~s.initialized
    THEN s
    ELSE LET s1 == CleanupLoop(s, 1)
             s2 == IF s1.arenas # NULL
                   THEN [system_free_mmap(s1, s1.arenas, ArenaArraySize(s1))
                            EXCEPT !.arenas = NULL]
                   ELSE s1
         IN  Emit([s2 EXCEPT !.main_arena = NULL, !.initialized = FALSE],
                  << "initialized", 0, 0 >>)

\* memforge_cleanup leaving the arena array mapped
memforge_cleanup_keeps_array(s) ==
    IF ~s.initialized
    THEN s
    ELSE LET s1 == CleanupLoop(s, 0)
         IN  Emit([s1 EXCEPT !.main_arena = NULL, !.initialized = FALSE],
                  << "initialized", 0, 0 >>)

\* void memforge_cleanup(void)
memforge_cleanup(s) ==
    IF ~s.initialized
    THEN s
    ELSE LET s1 == CleanupLoop(s, 0)
             s2 == IF s1.arenas # NULL
                   THEN [system_free_mmap(s1, s1.arenas, ArenaArraySize(s1))
                            EXCEPT !.arenas = NULL]
                   ELSE s1
         IN  Emit([s2 EXCEPT !.main_arena = NULL, !.initialized = FALSE],
                  << "initialized", 0, 0 >>)

\* memforge_reset without the memforge_cleanup call
memforge_reset_no_cleanup(s, env) ==
    LET s2 == [s EXCEPT !.stats = ZeroStats]
    IN  memforge_init(s2, NullConfig, env)

\* void memforge_reset(void)
memforge_reset(s, env) ==
    LET s1 == memforge_cleanup(s)
        s2 == [s1 EXCEPT !.stats = ZeroStats]
    IN  memforge_init(s2, NullConfig, env)

(***************************************************************************)
(* allocator.c                                                             *)
(***************************************************************************)
\* memforge_malloc without the lazy initialization
memforge_malloc_no_lazy_init(s, size, env, junk) ==
    [s EXCEPT !.rv = junk]

\* memforge_malloc ignoring the result of memforge_init
memforge_malloc_ignore_failure(s, size, env, junk) ==
    LET s1 == IF ~s.initialized THEN memforge_init(s, NullConfig, env) ELSE [s EXCEPT !.rv = 0]
    IN  [s1 EXCEPT !.rv = junk]

\* memforge_malloc adding the size it serves to current_usage, with a
\* memforge_free that gives nothing back
memforge_malloc_counts_usage(s, size, env, junk) ==
    LET s1 == IF ~s.initialized THEN memforge_init(s, NullConfig, env) ELSE [s EXCEPT !.rv = 0]
        sz == IF size = 0 THEN 1 ELSE size
    IN  IF s1.rv # 0
        THEN [s1 EXCEPT !.errno = ENOMEM, !.rv = NULL]
        ELSE [s1 EXCEPT !.rv = junk,
                        !.stats.current_usage = (@ + sz) % WORD]

\* void *memforge_malloc(size_t size).  After the lazy initialization the
\* function normalises size and reaches its closing brace without a return
\* statement: the value the caller reads is indeterminate (junk).
memforge_malloc(s, size, env, junk) ==
    LET s1 == IF ~s.initialized THEN memforge_init(s, NullConfig, env) ELSE [s EXCEPT !.rv = 0]
        sz == IF size = 0 THEN 1 ELSE size
    IN  IF s1.rv # 0
        THEN [s1 EXCEPT !.errno = ENOMEM, !.rv = NULL]
        ELSE [s1 EXCEPT !.rv = junk]

\* memforge_free starting with the lazy initialization of memforge_malloc
memforge_free_lazy_init(s, ptr) ==
    LET s1 == IF ~s.initialized
              THEN memforge_init(s, NullConfig, [ mmap_ok |-> TRUE, creates |-> MaxCreates ])
              ELSE s
    IN  IF ptr = NULL THEN s1 ELSE s1

\* void memforge_free(void *ptr)
memforge_free(s, ptr) ==
    IF ptr = NULL THEN s ELSE s

\* void *memforge_calloc(size_t n, size_t size) {}: the body is empty, the
\* value the caller reads is indeterminate (junk)
memforge_calloc(s, n, size, junk) ==
    [s EXCEPT !.rv = junk]

\* void *memforge_realloc(void *ptr, size_t size) {}: the body is empty, the
\* value the caller reads is indeterminate (junk)
memforge_realloc(s, ptr, size, junk) ==
    [s EXCEPT !.rv = junk]

(***************************************************************************)
(* Environment tuning (configuration set-up of the earlier init.c)         *)
(***************************************************************************)
MEMFORGE_PAGE_SIZE == 4096

MEMFORGE_MMAP_THRESHOLD == 128 * 1024

\* enum strategies { FIRST_FIT = 0, BEST_FIT, HYBRID }
MEMFORGE_STRATEGY_HYBRID == 2

\* const memforge_config_t default_memforge_config
default_memforge_config ==
    [ mmap_threshold |-> MEMFORGE_MMAP_THRESHOLD,
      page_size      |-> MEMFORGE_PAGE_SIZE,
      strategy       |-> MEMFORGE_STRATEGY_HYBRID,
      debug_level    |-> 0,
      thread_safe    |-> TRUE ]

\* memforge_config_t custom_memforge_config = {0};
ZeroTuning ==
    [ mmap_threshold |-> 0, page_size |-> 0, strategy |-> 0,
      debug_level |-> 0, thread_safe |-> FALSE ]

\* a string is the sequence of its characters
DigitChars == << "0", "1", "2", "3", "4", "5", "6", "7", "8", "9" >>

IsDigit(c) == \E i \in 1 .. 10 : DigitChars[i] = c

DigitValue(c) == (CHOOSE i \in 1 .. 10 : DigitChars[i] = c) - 1

RECURSIVE ParseDigits(_, _, _)
\* the value of the run of decimal digits of str that starts at position i
ParseDigits(str, i, acc) ==
    IF i > Len(str) \/ ~IsDigit(str[i])
    THEN acc
    ELSE ParseDigits(str, i + 1, acc * 10 + DigitValue(str[i]))

RECURSIVE SkipSpaces(_, _)
SkipSpaces(str, i) ==
    IF i <= Len(str) /\ str[i] = " " THEN SkipSpaces(str, i + 1) ELSE i

\* long atol(const char *): leading blanks, an optional sign, then digits up
\* to the first other character; 0 when there is no digit
atol(str) ==
    LET i == SkipSpaces(str, 1)
    IN  IF i <= Len(str) /\ str[i] = "-" THEN 0 - ParseDigits(str, i + 1, 0)
        ELSE IF i <= Len(str) /\ str[i] = "+" THEN ParseDigits(str, i + 1, 0)
        ELSE ParseDigits(str, i, 0)

\* int atoi(const char *)
atoi(str) == atol(str)

\* the names custom_environment_tuning passes to getenv
TuningNames ==
    { "MEMFORGE_MMAP_THRESHOLD", "MEMFORGE_PAGE_SIZE",
      "MEMFORGE_STRATEGY_HYBRID", "MEMFORGE_DEBUG" }

\* a variable of the environment: not set (getenv returns NULL) or a string
Unset == [ set |-> FALSE, val |-> << >> ]

Value(str) == [ set |-> TRUE, val |-> str ]

NoEnviron == [ v \in TuningNames |-> Unset ]

\* the environments the process is started in
Environs ==
    [ MEMFORGE_MMAP_THRESHOLD :
          { Unset, Value(<< "1", "3", "1", "0", "7", "2" >>),
            Value(<< "4", "0", "9", "6" >>), Value(<< "-", "1" >>) },
      MEMFORGE_PAGE_SIZE :
          { Unset, Value(<< "4", "0", "9", "6" >>), Value(<< " ", "8", "k" >>),
            Value(<< "-", "1" >>) },
      MEMFORGE_STRATEGY_HYBRID :
          { Unset, Value(<< "2" >>), Value(<< "+", "1" >>), Value(<< "-", "1" >>) },
      MEMFORGE_DEBUG :
          { Unset, Value(<< "0" >>), Value(<< "2" >>), Value(<< "-", "1" >>) } ]

\* char *getenv(const char *name)
getenv(env, name) == env[name]

\* static memforge_config_t custom_environment_tuning(void)
custom_environment_tuning(env) ==
    LET threshold == getenv(env, "MEMFORGE_MMAP_THRESHOLD")
        page      == getenv(env, "MEMFORGE_PAGE_SIZE")
        tegy      == getenv(env, "MEMFORGE_STRATEGY_HYBRID")
        debug     == getenv(env, "MEMFORGE_DEBUG")
        c0 == ZeroTuning
        c1 == IF threshold.set /\ atol(threshold.val) >= 0
              THEN [c0 EXCEPT !.mmap_threshold = atol(threshold.val) % WORD]
              ELSE c0
        c2 == IF page.set /\ atol(page.val) >= 0
              THEN [c1 EXCEPT !.page_size = atol(page.val) % WORD]
              ELSE c1
        c3 == IF tegy.set /\ atol(tegy.val) >= 0
              THEN [c2 EXCEPT !.strategy = atol(tegy.val)]
              ELSE c2
    IN  IF debug.set
        THEN [c3 EXCEPT !.debug_level = atoi(debug.val)]
        ELSE c3

\* const memforge_config_t setup_config(void)
setup_config(env) ==
    LET custom == custom_environment_tuning(env)
    IN  IF \/ custom.mmap_threshold # default_memforge_config.mmap_threshold
           \/ custom.page_size # default_memforge_config.page_size
           \/ custom.strategy # default_memforge_config.strategy
           \/ custom.debug_level # default_memforge_config.debug_level
        THEN custom
        ELSE default_memforge_config

\* setup_config has not been called
NoSetup == [ done |-> FALSE, config |-> ZeroTuning ]

(***************************************************************************)
(* Single-heap init.c: one chain of heap segments, no arenas               *)
(***************************************************************************)
MaxSegments == 3

SegIds == 1 .. MaxSegments

\* sizes of the regions a segment tracks
SegSizes == {4096, 8192}

\* sizeof(heap_segment_t): base, size, next, prev
SIZEOF_heap_segment_t == 4 * PTR_SIZE

\* the memory of a heap_segment_t that is not mapped
NoSegment == [ mapped |-> FALSE, size |-> 0, next |-> NULL ]

\* the state the single-heap functions work on; returned is false when a
\* call is still inside a loop after WalkFuel iterations
SingleHeap(init, head, segs, lg, u) ==
    [ initialized |-> init, heap_segments |-> head, segments |-> segs,
      log |-> lg, ub |-> u, rv |-> NULL, returned |-> TRUE ]

\* int memforge_init(void), single-heap version
memforge_init_single_heap(o) ==
    IF o.initialized
    THEN [o EXCEPT !.rv = 0]
    ELSE [o EXCEPT !.heap_segments = NULL, !.initialized = TRUE, !.rv = 0]

RECURSIVE LastSegment(_, _)
\* the segment of the chain starting at seg whose next link is NULL
LastSegment(segs, seg) ==
    IF segs[seg].next = NULL THEN seg ELSE LastSegment(segs, segs[seg].next)

\* heap_segment_t *heap_segment_create(void *base, size_t size) and its
\* registration in the chain, at the head or at the tail
heap_segment_create(o, size, at_head) ==
    LET free == { d \in SegIds : ~o.segments[d].mapped }
        d    == Min(free)
    IN  IF free = {}
        THEN [o EXCEPT !.rv = NULL]
        ELSE IF at_head \/ o.heap_segments = NULL
        THEN [o EXCEPT !.segments[d] =
                           [ mapped |-> TRUE, size |-> size, next |-> o.heap_segments ],
                       !.heap_segments = d,
                       !.rv = d]
        ELSE [o EXCEPT !.segments[d] = [ mapped |-> TRUE, size |-> size, next |-> NULL ],
                       !.segments[LastSegment(o.segments, o.heap_segments)].next = d,
                       !.rv = d]

\* system_free_mmap(seg, sizeof(heap_segment_t))
ReleaseSegment(o, seg) ==
    LET o1 == Emit(o, << "munmap", seg, SIZEOF_heap_segment_t >>)
    IN  IF seg \in SegIds /\ o.segments[seg].mapped
        THEN [o1 EXCEPT !.segments[seg].mapped = FALSE]
        ELSE [o1 EXCEPT !.ub = TRUE]

\* seg->next: the link of a mapped segment, anything (junk) out of memory
\* that has been released
ReadNext(o, seg, junk) ==
    IF seg \in SegIds /\ o.segments[seg].mapped
    THEN [o EXCEPT !.rv = o.segments[seg].next]
    ELSE [o EXCEPT !.rv = junk, !.ub = TRUE]

\* the body of the segment walk releasing the segment before reading its link
WalkBody_release_first(o, seg, junk) ==
    ReadNext(ReleaseSegment(o, seg), seg, junk)

\* heap_segment_t *next = seg->next; system_free_mmap(seg, ...); rv = next
WalkBody(o, seg, junk) ==
    LET o1 == ReadNext(o, seg, junk)
    IN  [ReleaseSegment(o1, seg) EXCEPT !.rv = o1.rv]

\* iterations after which a walk over MaxSegments segments must have ended
WalkFuel == MaxSegments + 1

RECURSIVE SegmentWalk(_, _, _, _)
\* while (seg != NULL) { ... seg = next; }
SegmentWalk(o, seg, fuel, junk) ==
    IF seg = NULL THEN o
    ELSE IF fuel = 0 THEN [o EXCEPT !.returned = FALSE]
    ELSE LET o1 == WalkBody(o, seg, junk)
         IN  SegmentWalk(o1, o1.rv, fuel - 1, junk)

\* void memforge_cleanup(void), single-heap version
memforge_cleanup_single_heap(o, junk) ==
    IF ~o.initialized
    THEN o
    ELSE LET o1 == SegmentWalk(o, o.heap_segments, WalkFuel, junk)
         IN  IF o1.returned
             THEN [o1 EXCEPT !.heap_segments = NULL, !.initialized = FALSE]
             ELSE o1

(***************************************************************************)
(* State                                                                   *)
(***************************************************************************)
VARIABLES
    memforge_initialized,   \* bool memforge_initialized
    memforge_config,        \* memforge_config_t memforge_config
    memforge_stats,         \* memforge_stats_t memforge_stats
    memforge_main_arena,    \* memforge_arena_t *memforge_main_arena
    memforge_arenas,        \* memforge_arena_t **memforge_arenas
    memforge_size_classes,  \* size_t memforge_size_classes[16]
    maps,                   \* OS mappings: id -> [live, size, slots]
    live,                   \* arenas created and not yet destroyed
    sys_page_size,          \* what sysconf(_SC_PAGESIZE) reports
    log,                    \* OS / arena calls and flag writes, in order
    ub,                     \* an invalid memory access took place
    errno,                  \* errno of the calling thread (Spec)
    call,                   \* the last completed public call (Spec)
    pc,                     \* position of each thread (SpecConc)
    loc,                    \* locals of each thread (SpecConc)
    environ,                \* the MEMFORGE_* variables of the environment
    setup,                  \* what setup_config returned
    initialized,            \* static bool initialized (single-heap init.c)
    heap_segments,          \* static heap_segment_t *heap_segments
    segments                \* heap_segment_t objects: id -> [mapped, size, next]

globals ==
    << memforge_initialized, memforge_config, memforge_stats,
       memforge_main_arena, memforge_arenas, memforge_size_classes >>

heap == << maps, live >>

\* the state of the earlier revisions of init.c
earlier_revisions == << environ, setup, initialized, heap_segments, segments >>

vars ==
    << memforge_initialized, memforge_config, memforge_stats,
       memforge_main_arena, memforge_arenas, memforge_size_classes,
       maps, live, sys_page_size, log, ub, errno, call, pc, loc,
       environ, setup, initialized, heap_segments, segments >>

\* the program state as the record the C functions work on
Cur ==
    [ initialized  |-> memforge_initialized,
      config       |-> memforge_config,
      stats        |-> memforge_stats,
      main_arena   |-> memforge_main_arena,
      arenas       |-> memforge_arenas,
      size_classes |-> memforge_size_classes,
      maps         |-> maps,
      live         |-> live,
      sys          |-> sys_page_size,
      log          |-> log,
      ub           |-> ub,
      errno        |-> errno,
      rv           |-> 0 ]

Commit(s) ==
    /\ memforge_initialized' = s.initialized
    /\ memforge_config' = s.config
    /\ memforge_stats' = s.stats
    /\ memforge_main_arena' = s.main_arena
    /\ memforge_arenas' = s.arenas
    /\ memforge_size_classes' = s.size_classes
    /\ maps' = s.maps
    /\ live' = s.live
    /\ log' = s.log
    /\ ub' = s.ub
    /\ UNCHANGED << sys_page_size, earlier_revisions >>

\* no pointer is in the state "returned by memforge_malloc, then released"
NoRelease == [ ptr |-> NULL, size |-> 0 ]

NoCall ==
    [ op |-> "none", config |-> NullConfig, n |-> 0, m |-> 0, rv |-> 0,
      was_initialized |-> FALSE, usage |-> 0, released |-> NoRelease,
      reinit |-> "no" ]

\* the earlier revisions before any call: an empty environment, no
\* configuration set up, no heap segment
EarlierInit ==
    /\ environ = NoEnviron
    /\ setup = NoSetup
    /\ initialized = FALSE
    /\ heap_segments = NULL
    /\ segments = [d \in SegIds |-> NoSegment]

IdleLocals == [ config |-> NullConfig, i |-> 0, rv |-> 0, errno |-> 0, top |-> "none" ]

Init ==
    /\ memforge_initialized = FALSE
    /\ memforge_config = ZeroConfig
    /\ memforge_stats = ZeroStats
    /\ memforge_main_arena = NULL
    /\ memforge_arenas = NULL
    /\ memforge_size_classes = InitialSizeClasses
    /\ maps = [m \in MapIds |-> NoMapping]
    /\ live = {}
    /\ sys_page_size \in PageSizes
    /\ log = << >>
    /\ ub = FALSE
    /\ errno = 0
    /\ call = NoCall
    /\ pc = [t \in Threads |-> "idle"]
    /\ loc = [t \in Threads |-> IdleLocals]
    /\ EarlierInit

RECURSIVE ClassScan(_, _, _)
\* scan of the boundaries from the smallest bucket up: the first bucket
\* (1-based) whose boundary is >= size, or one past the last bucket
ClassScan(sc, size, i) ==
    IF i > MEMFORGE_SIZE_CLASS_COUNT THEN i
    ELSE IF size <= sc[i] THEN i
    ELSE ClassScan(sc, size, i + 1)

\* size_t get_size_class(size_t size): index (0-based) of the bucket of a
\* pre-aligned size in memforge_size_classes; MEMFORGE_SIZE_CLASS_COUNT when
\* the size is above the largest boundary
get_size_class(s, size) == ClassScan(s.size_classes, size, 1) - 1

\* thread identifiers thread_get_id() may return
ThreadIdents == 0 .. NumArenaIds

\* memforge_arena_t *get_current_arena(void) for the thread with identifier
\* tid: the main arena in non-threaded mode; otherwise the arena assigned
\* round-robin over the configured arena count, and the main arena when that
\* slot holds no arena
get_current_arena(s, tid) ==
    IF \/ ~s.config.thread_safe
       \/ s.arenas = NULL
       \/ s.config.arena_count = 0
    THEN s.main_arena
    ELSE LET a == Load(s, tid % s.config.arena_count)
         IN  IF a = NULL THEN s.main_arena ELSE a

(***************************************************************************)
(* Spec: one thread, each public entry point runs to completion            *)
(***************************************************************************)
\* sizes passed to memforge_malloc
MaxSize == 1

\* pointer values passed to memforge_free / read back from memforge_malloc
MaxPtr == 1

\* sizes passed to memforge_malloc: the small ones and the two sizes around
\* the default mmap threshold
RequestSizes ==
    (0 .. MaxSize)
    \cup {MEMFORGE_DEFAULT_MMAP_THRESHOLD - 1, MEMFORGE_DEFAULT_MMAP_THRESHOLD}

Entry == [Cur EXCEPT !.log = << >>]

\* the pointer a memforge_free(n) call released, when it is the one the
\* memforge_malloc call just before it returned, with the size asked for
Released(op, n) ==
    IF /\ op = "memforge_free"
       /\ n # NULL
       /\ call.op = "memforge_malloc"
       /\ call.rv = n
    THEN [ ptr |-> n, size |-> call.n ]
    ELSE NoRelease

\* whether a memforge_init call starts from the state a memforge_cleanup of
\* a Ready allocator left, and whether that allocator had been initialized
\* by default with fewer arenas than the default asks for ("degraded")
Reinit(op) ==
    IF /\ op = "memforge_init"
       /\ ~memforge_initialized
       /\ call.op = "memforge_cleanup"
       /\ call.was_initialized
    THEN IF /\ memforge_config.strategy = "HYBRID"
            /\ memforge_config.arena_count < MEMFORGE_DEFAULT_ARENA_COUNT
         THEN "degraded"
         ELSE "clean"
    ELSE "no"

\* a public call returns: n and m are its first and second scalar argument,
\* usage is memforge_stats.current_usage when it was entered
ReturnArgs(op, config, n, m, s) ==
    /\ Commit(s)
    /\ errno' = s.errno
    /\ call' = [ op |-> op, config |-> config, n |-> n, m |-> m, rv |-> s.rv,
                 was_initialized |-> memforge_initialized,
                 usage |-> memforge_stats.current_usage,
                 released |-> Released(op, n),
                 reinit |-> Reinit(op) ]
    /\ UNCHANGED << pc, loc >>

Return(op, config, n, s) == ReturnArgs(op, config, n, 0, s)

\* the outcomes of the environment a call can meet: memforge_init and
\* memforge_malloc ask the OS for nothing once memforge_initialized is true
EnvsNow ==
    IF memforge_initialized
    THEN { [ mmap_ok |-> TRUE, creates |-> MaxCreates ] }
    ELSE Envs

CallInit ==
    \E config \in ConfigArgs, env \in EnvsNow :
        Return("memforge_init", config, 0, memforge_init(Entry, config, env))

CallCleanup ==
    Return("memforge_cleanup", NullConfig, 0, memforge_cleanup(Entry))

CallReset ==
    \E env \in Envs :
        Return("memforge_reset", NullConfig, 0, memforge_reset(Entry, env))

CallMalloc ==
    \E size \in RequestSizes, env \in EnvsNow, junk \in 0 .. MaxPtr :
        Return("memforge_malloc", NullConfig, size,
               memforge_malloc(Entry, size, env, junk))

CallFree ==
    \E ptr \in 0 .. MaxPtr :
        Return("memforge_free", NullConfig, ptr, memforge_free(Entry, ptr))

\* element counts passed to memforge_calloc: one element, and more than
\* half of the range of size_t
CallocCounts == {1, WORD \div 2 + 1}

\* element sizes passed to memforge_calloc
CallocSizes == {1, 2}

CallCalloc ==
    \E n \in CallocCounts, size \in CallocSizes, junk \in 0 .. MaxPtr :
        ReturnArgs("memforge_calloc", NullConfig, n, size,
                   memforge_calloc(Entry, n, size, junk))

CallRealloc ==
    \E ptr \in 0 .. MaxPtr, size \in 0 .. MaxSize, junk \in 0 .. MaxPtr :
        ReturnArgs("memforge_realloc", NullConfig, ptr, size,
                   memforge_realloc(Entry, ptr, size, junk))

Next ==
    \/ CallInit
    \/ CallCleanup
    \/ CallReset
    \/ CallMalloc
    \/ CallFree
    \/ CallCalloc
    \/ CallRealloc

Spec == Init /\ [][Next]_vars

(***************************************************************************)
(* Reading the log of a call                                               *)
(***************************************************************************)
IsCreate(e) == e[1] = "arena_create"

IsDestroy(e) == e[1] = "arena_destroy"

IsMmap(e) == e[1] = "mmap"

IsMunmap(e) == e[1] = "munmap"

IsFlagWrite(e) == e[1] = "initialized"

\* the arena_create calls of a log, in order
Creates(l) == SelectSeq(l, IsCreate)

\* the arenas the successful arena_create calls of a log returned, in order
CreatedArenas(l) ==
    LET c == Creates(l)
    IN  [k \in { j \in 1 .. Len(c) : c[j][2] # NULL } |-> c[k][2]]

Count(l, e) == Cardinality({ k \in 1 .. Len(l) : l[k] = e })

\* the configuration memforge_init(NULL) asks for on this system
DefaultConfig ==
    [ page_size      |-> IF sys_page_size = 0 THEN 4096 ELSE sys_page_size,
      mmap_threshold |-> 128 * 1024,
      strategy       |-> "HYBRID",
      thread_safe    |-> TRUE,
      debug_enabled  |-> FALSE,
      arena_count    |-> 4 ]

\* the allocator touched no invalid memory in a run of whole calls
NoInvalidAccess == ~ub

(***************************************************************************)
(* C1: the flag memforge_initialized changes only along the lifecycle      *)
(* Uninitialized -> Initializing -> Ready -> ShuttingDown -> Uninitialized:*)
(* over any sequence of init / cleanup / reset / malloc / free calls it is *)
(* written true only as the last effect of a memforge_init that obtained   *)
(* the arena array and the main arena (and then memforge_init returns 0),  *)
(* it is written false only by memforge_cleanup, after the arenas were     *)
(* destroyed and the array unmapped, and a failing memforge_init leaves it *)
(* false.                                                                  *)
(***************************************************************************)
C1_Step ==
    LET l == log'
        W == { k \in 1 .. Len(l) : IsFlagWrite(l[k]) }
    IN  /\ memforge_initialized' # memforge_initialized => W # {}
        /\ \A k \in W : l[k][2] = 1 =>
              /\ k = Len(l)
              /\ memforge_initialized'
              /\ call'.op \in {"memforge_init", "memforge_malloc", "memforge_reset"}
              /\ call'.op = "memforge_init" => call'.rv = 0
              /\ \/ ~memforge_initialized
                 \/ \E j \in W : j < k /\ l[j][2] = 0
              /\ \E j \in 1 .. k - 1 : IsMmap(l[j]) /\ l[j][2] # NULL
              /\ \E j \in 1 .. k - 1 : IsCreate(l[j]) /\ l[j][2] # NULL
        /\ \A k \in W : l[k][2] = 0 =>
              /\ call'.op \in {"memforge_cleanup", "memforge_reset"}
              /\ memforge_initialized
              /\ \A j \in 1 .. k - 1 : IsDestroy(l[j]) \/ IsMunmap(l[j])
              /\ call'.op = "memforge_cleanup" => k = Len(l) /\ ~memforge_initialized'
        /\ (call'.op = "memforge_init" /\ call'.rv # 0) => ~memforge_initialized'
        /\ W = {} /\ call'.op = "memforge_reset" => ~memforge_initialized'

C1_Lifecycle == [][C1_Step]_vars

\* a reset of a Ready allocator: the flag went true -> false -> true
C1_Witness ==
    /\ call.op = "memforge_reset"
    /\ call.was_initialized
    /\ memforge_initialized
    /\ Count(log, << "initialized", 0, 0 >>) = 1
    /\ Count(log, << "initialized", 1, 0 >>) = 1

(***************************************************************************)
(* C2: whenever memforge_initialized is true the main arena exists:        *)
(* memforge_main_arena is a live arena, memforge_arenas is a live array    *)
(* and memforge_arenas[0] == memforge_main_arena; the flag was written     *)
(* after the array was mapped and the main arena created.                  *)
(***************************************************************************)
C2_MainArenaExists ==
    memforge_initialized =>
        /\ memforge_main_arena # NULL
        /\ memforge_main_arena \in live
        /\ memforge_arenas \in MapIds
        /\ maps[memforge_arenas].live
        /\ Len(maps[memforge_arenas].slots) >= 1
        /\ maps[memforge_arenas].slots[1] = memforge_main_arena
        /\ \A k \in 1 .. Len(log) :
              log[k] = << "initialized", 1, 0 >> =>
                  /\ \E j \in 1 .. k - 1 : log[j] = << "arena_create", memforge_main_arena, 0 >>
                  /\ \E j \in 1 .. k - 1 : IsMmap(log[j]) /\ log[j][2] = memforge_arenas

\* Ready right after an initialization that only got the main arena
C2_Witness ==
    /\ memforge_initialized
    /\ call.op = "memforge_init"
    /\ ~call.was_initialized
    /\ live = {memforge_main_arena}

(***************************************************************************)
(* C3: memforge_init is idempotent: called while the allocator is already  *)
(* initialized it returns 0 and leaves memforge_config, the arena array,   *)
(* every arena and the size-class table unchanged (and calls neither the   *)
(* OS nor the arena layer), whatever configuration it is given.            *)
(***************************************************************************)
C3_Step ==
    (call'.op = "memforge_init" /\ memforge_initialized) =>
        /\ call'.rv = 0
        /\ UNCHANGED << globals, heap >>
        /\ log' = << >>

C3_InitIdempotent == [][C3_Step]_vars

\* memforge_init was called on a Ready allocator with a configuration that
\* differs from the one in force
C3_Witness ==
    /\ call.op = "memforge_init"
    /\ call.was_initialized
    /\ ~call.config.null
    /\ call.config.val # memforge_config
    /\ memforge_initialized

(***************************************************************************)
(* C4: memforge_cleanup is idempotent: called while the allocator is not   *)
(* initialized it changes nothing and releases nothing, so a second        *)
(* cleanup leaves the state of the first and no arena or array is released *)
(* twice.                                                                  *)
(***************************************************************************)
C4_Step ==
    (call'.op = "memforge_cleanup" /\ ~memforge_initialized) =>
        /\ UNCHANGED << globals, heap, ub >>
        /\ log' = << >>

C4_CleanupIdempotent == [][C4_Step]_vars

\* memforge_cleanup returned from a call made while not initialized
C4_Witness ==
    /\ call.op = "memforge_cleanup"
    /\ ~call.was_initialized
    /\ ~memforge_initialized
    /\ log = << >>

(***************************************************************************)
(* C5: after memforge_cleanup returns from a Ready state, every arena that *)
(* memforge_init created was passed to arena_destroy exactly once (and     *)
(* nothing else was), the arena array was released (once), memforge_arenas *)
(* and memforge_main_arena are NULL and memforge_initialized is false.     *)
(***************************************************************************)
C5_Step ==
    (call'.op = "memforge_cleanup" /\ memforge_initialized) =>
        /\ \A a \in live : Count(log', << "arena_destroy", a, 0 >>) = 1
        /\ \A k \in 1 .. Len(log') : IsDestroy(log'[k]) => log'[k][2] \in live
        /\ live' = {}
        /\ Cardinality({ k \in 1 .. Len(log') : IsMunmap(log'[k]) }) = 1
        /\ \E k \in 1 .. Len(log') : IsMunmap(log'[k]) /\ log'[k][2] = memforge_arenas
        /\ \A m \in MapIds : ~maps'[m].live
        /\ memforge_arenas' = NULL
        /\ memforge_main_arena' = NULL
        /\ ~memforge_initialized'
        /\ ~ub'

NoFailure(l) ==
    \A k \in 1 .. Len(l) : (IsMmap(l[k]) \/ IsCreate(l[k])) => l[k][2] # NULL

C6_Original_Step ==
    ( /\ call'.op \in {"memforge_malloc", "memforge_free"}
      /\ ~memforge_initialized
      /\ NoFailure(log') ) =>
        /\ memforge_initialized'
        /\ memforge_config' = DefaultConfig

C6_Original == [][C6_Original_Step]_vars

(***************************************************************************)
(* C6 (amended): memforge_malloc called while Uninitialized runs           *)
(* memforge_init(NULL); when the arena array and the main arena are        *)
(* obtained the allocator is Ready with the default configuration, except  *)
(* that arena_count is the number of arenas actually created (the default  *)
(* when every arena_create succeeds).  memforge_free never initializes:    *)
(* called while Uninitialized it leaves the allocator Uninitialized and    *)
(* unchanged.                                                              *)
(***************************************************************************)
C6_Step ==
    /\ ( /\ call'.op = "memforge_malloc"
         /\ ~memforge_initialized
         /\ \E k \in 1 .. Len(log') : IsMmap(log'[k]) /\ log'[k][2] # NULL
         /\ Len(Creates(log')) >= 1
         /\ Creates(log')[1][2] # NULL ) =>
            /\ memforge_initialized'
            /\ memforge_config' =
                  [DefaultConfig EXCEPT !.arena_count = Cardinality(live')]
            /\ NoFailure(log') => memforge_config' = DefaultConfig
    /\ (call'.op = "memforge_malloc" /\ ~memforge_initialized) =>
            /\ Len(log') >= 1
            /\ log'[1] \in { << "mmap", m, 4 * 8 >> : m \in MapIds \cup {NULL} }
    /\ (call'.op = "memforge_free" /\ ~memforge_initialized) =>
            /\ ~memforge_initialized'
            /\ UNCHANGED << globals, heap >>
            /\ log' = << >>

C6_LazyInit == [][C6_Step]_vars

\* a first memforge_malloc made the allocator Ready with every default arena
C6_Witness ==
    /\ call.op = "memforge_malloc"
    /\ ~call.was_initialized
    /\ memforge_initialized
    /\ memforge_config = DefaultConfig
    /\ Cardinality(live) = 4

(***************************************************************************)
(* C8: partial degradation is not a failure: with thread_safe enabled and  *)
(* a requested arena count N >= 2, if arena_create fails for the first     *)
(* time at index i (1 <= i < N), memforge_init returns 0 and reaches       *)
(* Ready, memforge_config.arena_count becomes i and slots 0..i-1 of        *)
(* memforge_arenas hold the arenas that were created, in order.            *)
(***************************************************************************)
Requested(c) == IF c.null THEN DefaultConfig ELSE c.val

C8_Step ==
    LET c  == Creates(log')
        ok == CreatedArenas(log')
        i  == Len(c) - 1
        N  == Requested(call'.config).arena_count
    IN  ( /\ call'.op = "memforge_init"
          /\ ~memforge_initialized
          /\ Requested(call'.config).thread_safe
          /\ N >= 2
          /\ \E k \in 1 .. Len(log') : IsMmap(log'[k]) /\ log'[k][2] # NULL
          /\ Len(c) >= 2
          /\ i < N
          /\ c[Len(c)][2] = NULL
          /\ \A k \in 1 .. i : c[k][2] # NULL ) =>
            /\ call'.rv = 0
            /\ memforge_initialized'
            /\ memforge_config'.arena_count = i
            /\ memforge_arenas' \in MapIds
            /\ maps'[memforge_arenas'].live
            /\ \A k \in 1 .. i :
                  /\ maps'[memforge_arenas'].slots[k] = c[k][2]
                  /\ c[k][2] \in live'
            /\ \A j, k \in 1 .. i : j # k => c[j][2] # c[k][2]
            /\ memforge_main_arena' = c[1][2]
            /\ Cardinality(live') = i

C8_PartialDegradation == [][C8_Step]_vars

\* memforge_init(NULL) got two of the four default arenas and is Ready
C8_Witness ==
    /\ call.op = "memforge_init"
    /\ call.config.null
    /\ ~call.was_initialized
    /\ call.rv = 0
    /\ memforge_initialized
    /\ memforge_config.arena_count = 2
    /\ Len(Creates(log)) = 3
    /\ Creates(log)[3][2] = NULL

(***************************************************************************)
(* C9: when the lazy initialization fails inside memforge_malloc, the call *)
(* returns NULL with errno ENOMEM and memforge_initialized stays false;    *)
(* every memforge_malloc made while not initialized attempts the           *)
(* initialization (again).                                                 *)
(***************************************************************************)
C9_Step ==
    (call'.op = "memforge_malloc" /\ ~memforge_initialized) =>
        /\ Len(log') >= 1 /\ IsMmap(log'[1])
        /\ ~NoFailure(log') /\ ~(\E k \in 1 .. Len(log') : IsFlagWrite(log'[k])) =>
              /\ call'.rv = NULL
              /\ errno' = ENOMEM
              /\ ~memforge_initialized'
        /\ ~memforge_initialized' =>
              /\ call'.rv = NULL
              /\ errno' = ENOMEM

C9_LazyInitFailure == [][C9_Step]_vars

\* a memforge_malloc whose lazy initialization failed on the main arena
C9_Witness ==
    /\ call.op = "memforge_malloc"
    /\ ~call.was_initialized
    /\ ~memforge_initialized
    /\ call.rv = NULL
    /\ errno = ENOMEM
    /\ Len(log) = 3

(***************************************************************************)
(* C10: memforge_free(NULL) is a no-op in every allocator state: it        *)
(* changes neither memforge_initialized, memforge_config, memforge_stats,  *)
(* the arena registry, nor any arena or mapping, and calls nothing.        *)
(***************************************************************************)
C10_Step ==
    (call'.op = "memforge_free" /\ call'.n = NULL) =>
        /\ UNCHANGED << globals, heap, ub >>
        /\ log' = << >>

C10_FreeNullNoop == [][C10_Step]_vars

\* memforge_free(NULL) returned on a Ready allocator with all default arenas
C10_Witness ==
    /\ call.op = "memforge_free"
    /\ call.n = NULL
    /\ call.was_initialized
    /\ memforge_initialized
    /\ Cardinality(live) = 4

(***************************************************************************)
(* SpecConc: several threads call memforge_init(NULL) and memforge_malloc  *)
(* with no synchronisation between them (init.c takes no lock); a step is  *)
(* one block of memforge_init / memforge_init_arenas / memforge_malloc.    *)
(* log holds the OS and arena calls of the last step.                      *)
(***************************************************************************)
\* the state a step of thread t starts from
CurOf(t) == [Cur EXCEPT !.log = << >>, !.errno = loc[t].errno, !.rv = loc[t].rv]

\* thread t moves to position p with the state s its step produced
Goto(t, p, s) ==
    /\ Commit(s)
    /\ pc' = [pc EXCEPT ![t] = p]
    /\ loc' = [loc EXCEPT ![t].rv = s.rv, ![t].errno = s.errno]
    /\ UNCHANGED << errno, call >>

\* positions between the check of memforge_initialized and the return
InitBody ==
    { "init_default", "init_override", "arenas_alloc", "arenas_main",
      "arenas_loop", "init_align", "init_flag" }

\* a thread calls memforge_init(NULL)
T_CallInit(t) ==
    /\ pc[t] = "idle"
    /\ pc' = [pc EXCEPT ![t] = "init_check"]
    /\ loc' = [loc EXCEPT ![t] = [IdleLocals EXCEPT !.top = "memforge_init"]]
    /\ log' = << >>
    /\ UNCHANGED << globals, heap, sys_page_size, earlier_revisions, ub, errno, call >>

\* a thread calls memforge_malloc(size): if (!memforge_initialized) ...
T_CallMalloc(t) ==
    /\ pc[t] = "idle"
    /\ pc' = [pc EXCEPT ![t] = IF ~memforge_initialized THEN "init_check" ELSE "malloc_size"]
    /\ loc' = [loc EXCEPT ![t] = [IdleLocals EXCEPT !.top = "memforge_malloc"]]
    /\ log' = << >>
    /\ UNCHANGED << globals, heap, sys_page_size, earlier_revisions, ub, errno, call >>

\* memforge_init: if (memforge_initialized) return 0;
T_InitCheck(t) ==
    /\ pc[t] = "init_check"
    /\ IF memforge_initialized
       THEN Goto(t, "init_ret", [CurOf(t) EXCEPT !.rv = 0])
       ELSE Goto(t, "init_default", CurOf(t))

\* memforge_init: memforge_init_default_config()
T_InitDefault(t) ==
    /\ pc[t] = "init_default"
    /\ Goto(t, "init_override", memforge_init_default_config(CurOf(t)))

\* memforge_init: if (config != NULL) memforge_config = *config;
T_InitOverride(t) ==
    /\ pc[t] = "init_override"
    /\ Goto(t, "arenas_alloc", ConfigOverride(CurOf(t), loc[t].config))

\* memforge_init_arenas: allocate arena array
T_ArenasAlloc(t) ==
    /\ pc[t] = "arenas_alloc"
    /\ \E ok \in BOOLEAN :
          LET s == ArenasAlloc(CurOf(t), ok)
          IN  Goto(t, IF s.rv # 0 THEN "init_ret" ELSE "arenas_main", s)

\* memforge_init_arenas: create main arena
T_ArenasMain(t) ==
    /\ pc[t] = "arenas_main"
    /\ \E ok \in BOOLEAN :
          LET s == ArenasMain(CurOf(t), ok)
          IN  /\ Commit(s)
              /\ pc' = [pc EXCEPT ![t] = IF s.rv # 0 THEN "init_ret"
                                         ELSE IF s.config.thread_safe THEN "arenas_loop"
                                         ELSE "init_align"]
              /\ loc' = [loc EXCEPT ![t].rv = s.rv, ![t].i = 1]
              /\ UNCHANGED << errno, call >>

\* memforge_init_arenas: one test and iteration of the worker-arena loop
T_ArenasLoop(t) ==
    /\ pc[t] = "arenas_loop"
    /\ IF loc[t].i < memforge_config.arena_count
       THEN \E ok \in BOOLEAN :
               LET s == ArenasLoopBody(CurOf(t), loc[t].i, ok)
               IN  /\ Commit(s)
                   /\ pc' = [pc EXCEPT ![t] = IF s.rv = NULL THEN "init_align" ELSE "arenas_loop"]
                   /\ loc' = [loc EXCEPT ![t].i = IF s.rv = NULL THEN @ ELSE @ + 1]
                   /\ UNCHANGED << errno, call >>
       ELSE Goto(t, "init_align", [CurOf(t) EXCEPT !.rv = 0])

\* memforge_init: align the size classes
T_InitAlign(t) ==
    /\ pc[t] = "init_align"
    /\ Goto(t, "init_flag", AlignSizeClasses(CurOf(t)))

\* memforge_init: memforge_initialized = true; return 0;
T_InitFlag(t) ==
    /\ pc[t] = "init_flag"
    /\ Goto(t, "init_ret", InitFinish(CurOf(t)))

\* memforge_init returns to its caller; in memforge_malloc:
\* if (memforge_init(NULL) != 0) { errno = ENOMEM; return NULL; }
T_InitReturn(t) ==
    /\ pc[t] = "init_ret"
    /\ IF loc[t].top = "memforge_init"
       THEN Goto(t, "idle", CurOf(t))
       ELSE IF loc[t].rv # 0
            THEN Goto(t, "idle", [CurOf(t) EXCEPT !.errno = ENOMEM, !.rv = NULL])
            ELSE Goto(t, "malloc_size", CurOf(t))

\* memforge_malloc: if (size == 0) size = 1; and the closing brace
T_MallocReturn(t) ==
    /\ pc[t] = "malloc_size"
    /\ \E junk \in 0 .. MaxPtr : Goto(t, "idle", [CurOf(t) EXCEPT !.rv = junk])

NextConc ==
    \E t \in Threads :
        \/ T_CallInit(t)
        \/ T_CallMalloc(t)
        \/ T_InitCheck(t)
        \/ T_InitDefault(t)
        \/ T_InitOverride(t)
        \/ T_ArenasAlloc(t)
        \/ T_ArenasMain(t)
        \/ T_ArenasLoop(t)
        \/ T_InitAlign(t)
        \/ T_InitFlag(t)
        \/ T_InitReturn(t)
        \/ T_MallocReturn(t)

SpecConc == Init /\ [][NextConc]_vars

(***************************************************************************)
(* C7: concurrent first initialization: when several threads call          *)
(* memforge_init (directly or through memforge_malloc) while the allocator *)
(* is Uninitialized, the first call wins: at most one thread is ever       *)
(* between the check of memforge_initialized and the return of             *)
(* memforge_init (the others block or observe Ready), and the arena array  *)
(* and the arenas exist exactly once: whenever the flag is true the only   *)
(* live mapping is the array memforge_arenas points to, its slot 0 is the  *)
(* live main arena, and every live arena is in one of its slots.           *)
(***************************************************************************)
C7_FirstCallWins ==
    /\ Cardinality({ t \in Threads : pc[t] \in InitBody }) <= 1
    /\ memforge_initialized =>
          /\ memforge_arenas \in MapIds
          /\ \A m \in MapIds : maps[m].live <=> m = memforge_arenas
          /\ memforge_main_arena \in live
          /\ Len(maps[memforge_arenas].slots) >= 1
          /\ maps[memforge_arenas].slots[1] = memforge_main_arena
          /\ \A a \in live :
                \E k \in 1 .. Len(maps[memforge_arenas].slots) :
                    maps[memforge_arenas].slots[k] = a
          /\ ~ub

(***************************************************************************)
(* C11: memforge_malloc(0) returns a valid, distinct pointer on each call: *)
(* the request is served as a request of 1 byte, and unless the allocator  *)
(* is out of memory the result is never NULL and never equal to the result *)
(* of an earlier memforge_malloc(0) that is still live (not yet passed to  *)
(* memforge_free); each result can be passed to memforge_free.             *)
(***************************************************************************)
C11_Step ==
    ( /\ call'.op = "memforge_malloc"
      /\ call'.n = 0
      /\ memforge_initialized' ) =>
        /\ call'.rv # NULL
        /\ ( /\ call.op = "memforge_malloc"
             /\ call.n = 0
             /\ call.rv # NULL ) => call'.rv # call.rv
        /\ ~ub'

C11_ZeroSizeUnique == [][C11_Step]_vars

(***************************************************************************)
(* C12 (as stated): memforge_reset is shutdown followed by                 *)
(* reinitialization: from any state, after memforge_reset returns, every   *)
(* field of memforge_stats is zero, memforge_config holds the default      *)
(* configuration (not one passed to an earlier memforge_init), and the     *)
(* allocator is Ready with a freshly created set of arenas.                *)
(***************************************************************************)
\* the arenas in slots 0 .. arena_count-1 of the array are exactly the ones
\* the arena_create calls of log l returned, in order, and they are live
FreshArenas(l, arenas, main, count, mp, lv) ==
    LET made == CreatedArenas(l)
    IN  /\ arenas \in MapIds
        /\ mp[arenas].live
        /\ count = Cardinality(DOMAIN made)
        /\ count >= 1
        /\ Len(mp[arenas].slots) >= count
        /\ \A k \in 1 .. count : mp[arenas].slots[k] = made[k]
        /\ main = made[1]
        /\ lv = { made[k] : k \in DOMAIN made }

C12_Original_Step ==
    call'.op = "memforge_reset" =>
        /\ memforge_stats' = ZeroStats
        /\ memforge_config' = DefaultConfig
        /\ memforge_initialized'
        /\ FreshArenas(log', memforge_arenas', memforge_main_arena',
                       memforge_config'.arena_count, maps', live')

C12_Step ==
    call'.op = "memforge_reset" =>
        /\ memforge_stats' = ZeroStats
        /\ [memforge_config' EXCEPT !.arena_count = 4] = DefaultConfig
        /\ memforge_initialized =>
              \E k \in 1 .. Len(log') : log'[k] = << "initialized", 0, 0 >>
        /\ memforge_initialized' <=>
              /\ \E k \in 1 .. Len(log') : IsMmap(log'[k]) /\ log'[k][2] # NULL
              /\ Len(Creates(log')) >= 1
              /\ Creates(log')[1][2] # NULL
        /\ memforge_initialized' =>
              /\ FreshArenas(log', memforge_arenas', memforge_main_arena',
                             memforge_config'.arena_count, maps', live')
              /\ NoFailure(log') => memforge_config' = DefaultConfig
        /\ ~memforge_initialized' =>
              /\ memforge_config' = DefaultConfig
              /\ memforge_main_arena' = NULL
              /\ live' = {}
              /\ \A m \in MapIds : ~maps'[m].live

C13_PageSizeAutoDetected ==
    ( /\ call.op = "memforge_init"
      /\ ~call.config.null
      /\ call.config.val.page_size = 0
      /\ ~call.was_initialized
      /\ call.rv = 0 ) =>
        /\ memforge_config.page_size # 0
        /\ memforge_config.page_size = DefaultConfig.page_size

(***************************************************************************)
(* C14: the size-class table invariant holds after any sequence of         *)
(* memforge_init, memforge_cleanup and memforge_reset (and of the lazy     *)
(* initializations of memforge_malloc): the 16 boundaries are strictly     *)
(* increasing and each is a multiple of MEMFORGE_ALIGNMENT, and re-running *)
(* the alignment pass of memforge_init on a later initialization leaves    *)
(* every boundary unchanged.                                               *)
(***************************************************************************)
SizeClassInvariant(sc) ==
    /\ DOMAIN sc = 1 .. MEMFORGE_SIZE_CLASS_COUNT
    /\ \A i \in 1 .. MEMFORGE_SIZE_CLASS_COUNT - 1 : sc[i] < sc[i + 1]
    /\ \A i \in 1 .. MEMFORGE_SIZE_CLASS_COUNT : sc[i] % MEMFORGE_ALIGNMENT = 0

C14_Step ==
    /\ SizeClassInvariant(memforge_size_classes)
    /\ SizeClassInvariant(memforge_size_classes')
    /\ memforge_size_classes' = memforge_size_classes
    /\ memforge_size_classes' = InitialSizeClasses

C14_SizeClassTable == [][C14_Step]_vars

\* memforge_reset initialized an allocator that had been initialized before:
\* the alignment pass ran on a table it had already aligned
C14_Witness ==
    /\ call.op = "memforge_reset"
    /\ call.was_initialized
    /\ memforge_initialized
    /\ \E k \in 1 .. Len(log) : log[k] = << "initialized", 1, 0 >>
    /\ SizeClassInvariant(memforge_size_classes)

(***************************************************************************)
(* C15: for every size >= 0, memforge_malloc(size) either returns a        *)
(* pointer aligned to the alignment unit MEMFORGE_ALIGNMENT, to a region   *)
(* of at least size bytes, or fails with OutOfMemory: it returns NULL with *)
(* errno set to ENOMEM after a system allocation was refused.              *)
(***************************************************************************)
C15_AlignedOrOutOfMemory ==
    call.op = "memforge_malloc" =>
        \/ /\ call.rv # NULL
           /\ call.rv % MEMFORGE_ALIGNMENT = 0
           /\ memforge_initialized
        \/ /\ call.rv = NULL
           /\ errno = ENOMEM
           /\ ~NoFailure(log)

(***************************************************************************)
(* C16: threshold boundary: memforge_malloc(mmap_threshold - 1) is served  *)
(* from heap segments and leaves memforge_stats.mmap_count unchanged;      *)
(* memforge_malloc(mmap_threshold) is served as a direct mapping and       *)
(* increments memforge_stats.mmap_count by exactly 1: a request of exactly *)
(* the threshold size is mapped, not heap-served.                          *)
(***************************************************************************)
C16_Step ==
    ( /\ call'.op = "memforge_malloc"
      /\ memforge_initialized'
      /\ call'.rv # NULL ) =>
        /\ call'.n = memforge_config'.mmap_threshold - 1 =>
              /\ memforge_stats'.mmap_count = memforge_stats.mmap_count
              /\ \A k \in 1 .. Len(log') :
                    IsMmap(log'[k]) => log'[k][3] # call'.n
        /\ call'.n = memforge_config'.mmap_threshold =>
              /\ memforge_stats'.mmap_count = memforge_stats.mmap_count + 1
              /\ \E k \in 1 .. Len(log') :
                    IsMmap(log'[k]) /\ log'[k][3] >= call'.n

C16_ThresholdBoundary == [][C16_Step]_vars

(***************************************************************************)
(* C18: under N threads performing allocate/release cycles no two threads  *)
(* ever hold overlapping regions as simultaneously allocated: in every     *)
(* reachable state the live allocations are pairwise disjoint, so two      *)
(* threads whose memforge_malloc calls have returned non-NULL pointers     *)
(* that are not yet released hold different pointers.                      *)
(***************************************************************************)
\* thread t holds the result of a completed memforge_malloc (SpecConc has no
\* release: the result stays live until the thread's next call)
Holds(t) ==
    /\ pc[t] = "idle"
    /\ loc[t].top = "memforge_malloc"
    /\ loc[t].rv # NULL

C18_LiveAllocationsDisjoint ==
    \A t, u \in Threads :
        (t # u /\ Holds(t) /\ Holds(u)) => loc[t].rv # loc[u].rv

(***************************************************************************)
(* C19: under N threads performing allocate/release cycles the global      *)
(* byte-usage counters lose no update: once all threads have finished,     *)
(* total_allocated, total_freed, allocation_count and free_count equal the *)
(* sums over all completed operations and current_usage equals             *)
(* total_allocated - total_freed.  Step by step: every memforge_malloc     *)
(* that completes with a non-NULL result, whatever the other threads do,   *)
(* adds one to allocation_count and at least one byte to total_allocated,  *)
(* and current_usage stays total_allocated - total_freed.                  *)
(***************************************************************************)
C19_Step ==
    \A t \in Threads :
        ( /\ pc[t] = "malloc_size"
          /\ pc'[t] = "idle"
          /\ loc'[t].rv # NULL ) =>
            /\ memforge_stats'.allocation_count =
                  memforge_stats.allocation_count + 1
            /\ memforge_stats'.total_allocated > memforge_stats.total_allocated
            /\ memforge_stats'.current_usage =
                  memforge_stats'.total_allocated - memforge_stats'.total_freed
            /\ memforge_stats'.free_count = memforge_stats.free_count
            /\ memforge_stats'.total_freed = memforge_stats.total_freed

C19_NoLostUpdate == [][C19_Step]_vars

(***************************************************************************)
(* C22: round trip of the usage accounting: over any sequence of           *)
(* allocate/release pairs (a memforge_malloc that returns a pointer,       *)
(* followed by the memforge_free of that pointer) the bytes tracked as in  *)
(* use, memforge_stats.current_usage, are back at their value from before  *)
(* the pair once the release completes, hence at their pre-sequence value  *)
(* after the last release.                                                 *)
(***************************************************************************)
C22_Step ==
    ( /\ call.op = "memforge_malloc"
      /\ call.rv # NULL
      /\ call'.op = "memforge_free"
      /\ call'.n = call.rv ) =>
        /\ call'.released.ptr = call.rv
        /\ memforge_stats'.current_usage = call.usage

C23_Step ==
    ( /\ call.op = "memforge_free"
      /\ call.released.ptr # NULL
      /\ call'.op = "memforge_free"
      /\ call'.n = call.released.ptr ) =>
        /\ errno' # errno \/ log' # << >>
        /\ UNCHANGED << globals, heap >>
        /\ ~ub'

C23_DoubleReleaseDetected == [][C23_Step]_vars

(***************************************************************************)
(* C24: reuse: memforge_free(X) followed by memforge_malloc(size) with     *)
(* size <= |X| returns the same address X under the first-fit and hybrid   *)
(* strategies when no allocation of a different bucket intervenes (here:   *)
(* no call at all intervenes, and X was allocated with at least size       *)
(* bytes).                                                                 *)
(***************************************************************************)
C24_Step ==
    ( /\ call.op = "memforge_free"
      /\ call.released.ptr # NULL
      /\ memforge_initialized
      /\ memforge_config.strategy \in {"FIRST_FIT", "HYBRID"}
      /\ call'.op = "memforge_malloc"
      /\ call'.n <= (IF call.released.size = 0 THEN 1 ELSE call.released.size) ) =>
        call'.rv = call.released.ptr

C24_Reuse == [][C24_Step]_vars

(***************************************************************************)
(* C26: memforge_calloc checks the multiplication for overflow:            *)
(* memforge_calloc(n, size) returns failure (NULL) whenever n * size       *)
(* exceeds the range of size_t and never allocates a region of the         *)
(* wrapped-around, smaller product; on success all n * size bytes are      *)
(* zero.                                                                   *)
(***************************************************************************)
C26_CallocOverflowChecked ==
    ( /\ call.op = "memforge_calloc"
      /\ call.n * call.m >= WORD ) =>
        call.rv = NULL

(***************************************************************************)
(* C27: edge cases of memforge_realloc: memforge_realloc(NULL, n) behaves  *)
(* exactly as memforge_malloc(n) (same effect on the allocator, same       *)
(* possible results); memforge_realloc(p, 0) with p non-NULL releases p    *)
(* and then returns the zero-size pointer (non-NULL, as for                *)
(* memforge_malloc(0)); in every other case the bytes in                   *)
(* [0, min(oldSize, newSize)) are preserved.                               *)
(***************************************************************************)
\* the step ends in a state memforge_malloc(n) can produce from the state it
\* started in
AsMalloc(n) ==
    \E env \in Envs, junk \in 0 .. MaxPtr :
        LET s == memforge_malloc(Entry, n, env, junk)
        IN  /\ memforge_initialized' = s.initialized
            /\ memforge_config' = s.config
            /\ memforge_stats' = s.stats
            /\ memforge_main_arena' = s.main_arena
            /\ memforge_arenas' = s.arenas
            /\ memforge_size_classes' = s.size_classes
            /\ maps' = s.maps
            /\ live' = s.live
            /\ log' = s.log
            /\ errno' = s.errno
            /\ call'.rv = s.rv

C27_Step ==
    call'.op = "memforge_realloc" =>
        /\ call'.n = NULL => AsMalloc(call'.m)
        /\ (call'.n # NULL /\ call'.m = 0) =>
              /\ call'.rv # NULL
              /\ UNCHANGED memforge_initialized

C27_ReallocEdgeCases == [][C27_Step]_vars

(***************************************************************************)
(* C28: classify is total and deterministic: every pre-aligned size not    *)
(* above the largest boundary maps to exactly one bucket, and that bucket  *)
(* is the one with the smallest boundary >= the aligned request size.      *)
(***************************************************************************)
\* pre-aligned request sizes: the alignment unit, every boundary, and the
\* next aligned size after every boundary but the last
ClassifySizes ==
    {MEMFORGE_ALIGNMENT}
    \cup { InitialSizeClasses[i] : i \in 1 .. MEMFORGE_SIZE_CLASS_COUNT }
    \cup { InitialSizeClasses[i] + MEMFORGE_ALIGNMENT :
              i \in 1 .. MEMFORGE_SIZE_CLASS_COUNT - 1 }

\* the buckets (0-based) whose range (previous boundary, boundary] holds size
BucketsOf(sc, size) ==
    { b \in 0 .. MEMFORGE_SIZE_CLASS_COUNT - 1 :
        /\ size <= sc[b + 1]
        /\ b > 0 => sc[b] < size }

C28_ClassifyTotalDeterministic ==
    \A size \in ClassifySizes :
        ( /\ size = MEMFORGE_ALIGN(size)
          /\ size <= memforge_size_classes[MEMFORGE_SIZE_CLASS_COUNT] ) =>
            LET b == get_size_class(Cur, size)
            IN  /\ b \in 0 .. MEMFORGE_SIZE_CLASS_COUNT - 1
                /\ BucketsOf(memforge_size_classes, size) = {b}
                /\ memforge_size_classes[b + 1] >= size
                /\ \A j \in 1 .. MEMFORGE_SIZE_CLASS_COUNT :
                      memforge_size_classes[j] >= size =>
                          memforge_size_classes[j] >= memforge_size_classes[b + 1]

\* on a Ready allocator, after the alignment pass, 24 bytes classify into the
\* bucket of boundary 32 and the largest boundary into the last bucket
C28_Witness ==
    /\ memforge_initialized
    /\ call.op = "memforge_init"
    /\ get_size_class(Cur, 24) = 1
    /\ get_size_class(Cur, 16) = 0
    /\ get_size_class(Cur, 524288) = MEMFORGE_SIZE_CLASS_COUNT - 1

AllocationSize(lg, j, ptr, before) ==
    LET earlier == { k \in 1 .. (j - 1) : IsMmap(lg[k]) /\ lg[k][2] = ptr }
    IN  IF earlier # {}
        THEN lg[CHOOSE k \in earlier : \A l \in earlier : l <= k][3]
        ELSE before[ptr].size

C31_Step ==
    \A j \in DOMAIN log' :
        (IsMunmap(log'[j]) /\ log'[j][2] \in MapIds)
            => log'[j][3] = AllocationSize(log', j, log'[j][2], maps)

\* C31: on every path the size passed to system_free_mmap for the arena
\* pointer array equals the size passed to the system_alloc_mmap call that
\* created the array
C31_ReleaseSizeMatches == [][C31_Step]_vars


(***************************************************************************)
(* C32: which arenas memforge_init creates                                 *)
(***************************************************************************)
C32_Step ==
    LET c  == Creates(log')
        rq == Requested(call'.config)
        N  == rq.arena_count
    IN  ( /\ call'.op = "memforge_init"
          /\ ~memforge_initialized
          /\ \E k \in 1 .. Len(log') : IsMmap(log'[k]) /\ log'[k][2] # NULL
          /\ Len(c) >= 1
          /\ c[1][2] # NULL ) =>
            /\ memforge_main_arena' = c[1][2]
            /\ maps'[memforge_arenas'].slots[1] = c[1][2]
            /\ ~rq.thread_safe =>
                  /\ Len(c) = 1
                  /\ live' = {c[1][2]}
                  /\ \A k \in 2 .. Len(maps'[memforge_arenas'].slots) :
                        maps'[memforge_arenas'].slots[k] = NULL
            /\ rq.thread_safe =>
                  /\ Len(c) <= N
                  /\ \A k \in 1 .. (Len(c) - 1) : c[k][2] # NULL
                  /\ (c[Len(c)][2] # NULL) => Len(c) = N
                  /\ \A k \in 1 .. Len(c) :
                        maps'[memforge_arenas'].slots[k] = c[k][2]
                  /\ \A k \in (Len(c) + 1) .. Len(maps'[memforge_arenas'].slots) :
                        maps'[memforge_arenas'].slots[k] = NULL

\* C32: once the array is mapped and the main arena created, memforge_init
\* with thread_safe off creates exactly one arena, the main arena at index 0,
\* whatever arena_count is; with thread_safe on it calls arena_create once for
\* each index 1..arena_count-1 in increasing order, storing each result in its
\* slot, and stops at the first failure
C32_ArenasCreated == [][C32_Step]_vars

\* memforge_init with thread_safe off and arena_count 3 created one arena
C32_Witness ==
    /\ call.op = "memforge_init"
    /\ ~call.was_initialized
    /\ ~call.config.null
    /\ ~call.config.val.thread_safe
    /\ call.config.val.arena_count = MaxArenaCount
    /\ memforge_initialized
    /\ Len(Creates(log)) = 1
    /\ Cardinality(live) = 1


C34_UninitializedGlobalsNull ==
    ~memforge_initialized =>
        /\ memforge_arenas = NULL
        /\ memforge_main_arena = NULL


(***************************************************************************)
(* C35: a failed memforge_init commits no partial state                    *)
(***************************************************************************)
\* the mappings a call obtained and did not release before it returned
HeldMappings(lg) ==
    { j \in DOMAIN lg :
        /\ IsMmap(lg[j])
        /\ lg[j][2] # NULL
        /\ ~\E k \in (j + 1) .. Len(lg) : IsMunmap(lg[k]) /\ lg[k][2] = lg[j][2] }

C35_Step ==
    ( /\ call'.op = "memforge_init"
      /\ ~memforge_initialized
      /\ \E k \in DOMAIN log' :
            (IsMmap(log'[k]) \/ IsCreate(log'[k])) /\ log'[k][2] = NULL
      /\ ~\E k \in DOMAIN log' : IsCreate(log'[k]) /\ log'[k][2] # NULL ) =>
        /\ call'.rv = -1
        /\ ~memforge_initialized'
        /\ HeldMappings(log') = {}
        /\ maps' = maps
        /\ memforge_config' = memforge_config

\* C35: when the arena array cannot be mapped or the main arena cannot be
\* created, memforge_init returns -1, memforge_initialized stays false, no OS
\* mapping obtained during the call remains held, and memforge_config keeps
\* the value it had before the call
C35_NoPartialState == [][C35_Step]_vars


(***************************************************************************)
(* C36: memforge_init after memforge_cleanup                               *)
(***************************************************************************)
\* the state of the program before any call, on this system
InitialState ==
    [ initialized  |-> FALSE,
      config       |-> ZeroConfig,
      stats        |-> ZeroStats,
      main_arena   |-> NULL,
      arenas       |-> NULL,
      size_classes |-> InitialSizeClasses,
      maps         |-> [m \in MapIds |-> NoMapping],
      live         |-> {},
      sys          |-> sys_page_size,
      log          |-> << >>,
      ub           |-> FALSE,
      errno        |-> 0,
      rv           |-> 0 ]

\* memforge_init(config) from the initial state, the OS refusing nothing
FromInitialState(config) ==
    memforge_init(InitialState, config, [ mmap_ok |-> TRUE, creates |-> MaxCreates ])

C36_Step ==
    ( /\ call'.op = "memforge_init"
      /\ call'.reinit # "no"
      /\ NoFailure(log') ) =>
        LET e == FromInitialState(call'.config)
        IN  /\ call'.rv = 0
            /\ memforge_initialized'
            /\ memforge_config' = Requested(call'.config)
            /\ log' = e.log
            /\ memforge_config' = e.config
            /\ memforge_main_arena' = e.main_arena
            /\ memforge_arenas' = e.arenas
            /\ maps' = e.maps
            /\ live' = e.live
            /\ memforge_size_classes' = e.size_classes
            /\ ub' = ub
            /\ live' = { CreatedArenas(log')[k] : k \in DOMAIN CreatedArenas(log') }

MaxAlignInput == 40

\* the sizes MEMFORGE_ALIGN is applied to: the smallest ones and the ones
\* next to SIZE_MAX = WORD - 1
AlignInputs == (0 .. MaxAlignInput) \cup ((WORD - 1 - MaxAlignInput) .. (WORD - 1))

InitAlign ==
    /\ memforge_initialized = FALSE
    /\ memforge_config = ZeroConfig
    /\ memforge_stats = ZeroStats
    /\ memforge_main_arena = NULL
    /\ memforge_arenas = NULL
    /\ memforge_size_classes = InitialSizeClasses
    /\ maps = [m \in MapIds |-> NoMapping]
    /\ live = {}
    /\ sys_page_size \in PageSizes
    /\ log = << >>
    /\ ub = FALSE
    /\ errno = 0
    /\ \E size \in AlignInputs : call = [NoCall EXCEPT !.n = size]
    /\ pc = [t \in Threads |-> "idle"]
    /\ loc = [t \in Threads |-> IdleLocals]
    /\ EarlierInit

\* r = MEMFORGE_ALIGN(size)
AlignSize ==
    /\ call.op = "none"
    /\ call' = [call EXCEPT !.op = "MEMFORGE_ALIGN",
                            !.rv = MEMFORGE_ALIGN(call.n)]
    /\ UNCHANGED << globals, heap, sys_page_size, earlier_revisions, log, ub, errno, pc, loc >>

\* r = MEMFORGE_ALIGN(r), m keeping the first result
AlignAgain ==
    /\ call.op = "MEMFORGE_ALIGN"
    /\ call' = [call EXCEPT !.op = "MEMFORGE_ALIGN twice",
                            !.m = call.rv,
                            !.rv = MEMFORGE_ALIGN(call.rv)]
    /\ UNCHANGED << globals, heap, sys_page_size, earlier_revisions, log, ub, errno, pc, loc >>

NextAlign ==
    \/ AlignSize
    \/ AlignAgain

SpecAlign == InitAlign /\ [][NextAlign]_vars

(***************************************************************************)
(* C37: MEMFORGE_ALIGN rounds up to the alignment, modulo 2^w              *)
(***************************************************************************)
\* C37: for every size <= SIZE_MAX - 7, MEMFORGE_ALIGN(size) is the smallest
\* multiple of MEMFORGE_ALIGNMENT (8) that is >= size, differs from size by
\* at most 7 and is left unchanged by a second application; for larger sizes
\* the addition is taken modulo 2^w and the result is smaller than size
C37_AlignRoundsUp ==
    LET size == call.n
        top  == (WORD - 1) - (MEMFORGE_ALIGNMENT - 1)
    IN  /\ call.op = "MEMFORGE_ALIGN" =>
               IF size <= top
               THEN /\ call.rv % MEMFORGE_ALIGNMENT = 0
                    /\ call.rv >= size
                    /\ call.rv - size <= 7
                    /\ \A x \in size .. (call.rv - 1) : x % MEMFORGE_ALIGNMENT # 0
               ELSE /\ call.rv < size
                    /\ call.rv = ((size + 7) % WORD)
                                     - (((size + 7) % WORD) % MEMFORGE_ALIGNMENT)
        /\ call.op = "MEMFORGE_ALIGN twice" =>
               (size <= top => call.rv = call.m)

\* MEMFORGE_ALIGN(13) gave 16, and 16 again when applied to the result
C37_Witness ==
    /\ call.op = "MEMFORGE_ALIGN twice"
    /\ call.n = 13
    /\ call.m = 16
    /\ call.rv = 16


(***************************************************************************)
(* SpecConfig: setup_config in every environment of Environs               *)
(***************************************************************************)
InitConfig ==
    /\ memforge_initialized = FALSE
    /\ memforge_config = ZeroConfig
    /\ memforge_stats = ZeroStats
    /\ memforge_main_arena = NULL
    /\ memforge_arenas = NULL
    /\ memforge_size_classes = InitialSizeClasses
    /\ maps = [m \in MapIds |-> NoMapping]
    /\ live = {}
    /\ sys_page_size \in PageSizes
    /\ log = << >>
    /\ ub = FALSE
    /\ errno = 0
    /\ call = NoCall
    /\ pc = [t \in Threads |-> "idle"]
    /\ loc = [t \in Threads |-> IdleLocals]
    /\ environ \in Environs
    /\ setup = NoSetup
    /\ initialized = FALSE
    /\ heap_segments = NULL
    /\ segments = [d \in SegIds |-> NoSegment]

\* config = setup_config();
CallSetupConfig ==
    /\ ~setup.done
    /\ setup' = [ done |-> TRUE, config |-> setup_config(environ) ]
    /\ call' = [NoCall EXCEPT !.op = "setup_config"]
    /\ UNCHANGED << globals, heap, sys_page_size, log, ub, errno, pc, loc,
                    environ, initialized, heap_segments, segments >>

NextConfig == CallSetupConfig

SpecConfig == InitConfig /\ [][NextConfig]_vars

(***************************************************************************)
(* C38: what setup_config returns                                          *)
(***************************************************************************)
\* the variable is set to a value that is not negative
Overrides(name) == environ[name].set /\ atol(environ[name].val) >= 0

\* C38: setup_config returns the default configuration when no MEMFORGE_*
\* variable is set, and when one is set the returned configuration differs
\* from the default only in the fields a variable overrides: a field with no
\* variable (or with a negative value) keeps its default value
C38_SetupConfig ==
    setup.done =>
        LET r == setup.config
            d == default_memforge_config
        IN  /\ (\A name \in TuningNames : ~environ[name].set) => r = d
            /\ r.mmap_threshold =
                   IF Overrides("MEMFORGE_MMAP_THRESHOLD")
                   THEN atol(environ["MEMFORGE_MMAP_THRESHOLD"].val)
                   ELSE d.mmap_threshold
            /\ r.page_size =
                   IF Overrides("MEMFORGE_PAGE_SIZE")
                   THEN atol(environ["MEMFORGE_PAGE_SIZE"].val)
                   ELSE d.page_size
            /\ r.strategy =
                   IF Overrides("MEMFORGE_STRATEGY_HYBRID")
                   THEN atol(environ["MEMFORGE_STRATEGY_HYBRID"].val)
                   ELSE d.strategy
            /\ r.debug_level =
                   IF Overrides("MEMFORGE_DEBUG")
                   THEN atol(environ["MEMFORGE_DEBUG"].val)
                   ELSE d.debug_level
            /\ r.thread_safe = d.thread_safe


(***************************************************************************)
(* SpecSeg: the single-heap init.c (memforge_init, heap growth,            *)
(* memforge_cleanup), one caller                                           *)
(***************************************************************************)
InitSeg == Init

CurSeg == SingleHeap(initialized, heap_segments, segments, << >>, ub)

\* a call of the single-heap revision returns, or stays in its loop
ReturnSeg(op, o) ==
    /\ initialized' = o.initialized
    /\ heap_segments' = o.heap_segments
    /\ segments' = o.segments
    /\ log' = o.log
    /\ ub' = o.ub
    /\ call' = [NoCall EXCEPT !.op = op, !.was_initialized = initialized]
    /\ pc' = [pc EXCEPT ![1] = IF o.returned THEN "idle" ELSE "segment_walk"]
    /\ UNCHANGED << globals, heap, sys_page_size, errno, loc, environ, setup >>

CallInitSingleHeap ==
    /\ pc[1] = "idle"
    /\ ReturnSeg("memforge_init (single heap)", memforge_init_single_heap(CurSeg))

\* the heap grows by one segment of the initialized allocator
GrowHeap ==
    /\ pc[1] = "idle"
    /\ initialized
    /\ \E d \in SegIds : ~segments[d].mapped
    /\ \E size \in SegSizes, at_head \in BOOLEAN :
           ReturnSeg("heap_segment_create", heap_segment_create(CurSeg, size, at_head))

CallCleanupSingleHeap ==
    /\ pc[1] = "idle"
    /\ \E junk \in 0 .. MaxSegments :
           ReturnSeg("memforge_cleanup (single heap)",
                     memforge_cleanup_single_heap(CurSeg, junk))

NextSeg ==
    \/ CallInitSingleHeap
    \/ GrowHeap
    \/ CallCleanupSingleHeap

SpecSeg == InitSeg /\ [][NextSeg]_vars

(***************************************************************************)
(* C39: the segment walk of the single-heap memforge_cleanup               *)
(***************************************************************************)
RECURSIVE ChainFrom(_, _)
\* the segments of the chain that starts at seg, in order
ChainFrom(segs, seg) ==
    IF seg = NULL THEN << >> ELSE << seg >> \o ChainFrom(segs, segs[seg].next)

C39_Step ==
    ( /\ call'.op = "memforge_cleanup (single heap)"
      /\ initialized ) =>
        LET chain    == ChainFrom(segments, heap_segments)
            releases == SelectSeq(log', IsMunmap)
        IN  /\ pc'[1] = "idle"
            /\ ub' = ub
            /\ releases =
                   [k \in 1 .. Len(chain) |->
                        << "munmap", chain[k], SIZEOF_heap_segment_t >>]
            /\ \A j, k \in 1 .. Len(chain) : j # k => chain[j] # chain[k]
            /\ \A d \in SegIds : ~segments'[d].mapped
            /\ heap_segments' = NULL
            /\ ~initialized'

\* C39: the segment walk of memforge_cleanup reads each segment's next link
\* before releasing the segment, passes every heap_segment_t of the chain to
\* system_free_mmap exactly once, in chain order, terminates on every finite
\* acyclic chain, and leaves heap_segments empty and the allocator
\* uninitialized
C39_SegmentWalk == [][C39_Step]_vars

\* memforge_cleanup has released a chain of at least two segments
C39_Witness ==
    /\ call.op = "memforge_cleanup (single heap)"
    /\ call.was_initialized
    /\ ~initialized
    /\ pc[1] = "idle"
    /\ Len(SelectSeq(log, IsMunmap)) >= 2

====
